---- MODULE Spec2Model ----
(***************************************************************************)
(* AMTL lock-free MPMC queue (split reference counting).                   *)
(*   "helping" variant : src/AMTL/Core/src/MPMCQueue.h                     *)
(*   "plain"   variant : src/unnamed/part_000 (no helping pushers)         *)
(* Every atomic operation of the source (load, exchange, one attempt of a  *)
(* compare_exchange) is one step of one thread.  A compare_exchange_weak   *)
(* that fails spuriously re-reads the value it already holds: that step    *)
(* changes nothing and is a stuttering step of every specification here.   *)
(***************************************************************************)
EXTENDS Integers, Sequences, FiniteSets, TLC

VARIABLES variant, mem, head, tail, th, plan, env, hist, spin, mtq, tp

\* the other primitives of the toolkit: Spinlock, MTQueue, TaskProcessor
others == <<spin, mtq, tp>>

vars == <<variant, mem, head, tail, th, plan, env, hist, spin, mtq, tp>>

(***************************** bounds **************************************)
MaxThreads == 5
MaxNodes == 6
MaxVals == 3
MaxExt == 6
MaxSusp == 1
MaxPreempt == 4
MaxLockThreads == 3
MaxFail == 1
MaxMTThreads == 3
MaxMTVals == 3
MaxMTPops == 4
MaxWorkers == 2
MaxTasks == 3
MaxSpurious == 1

Threads == 1..MaxThreads
Nodes == 1..MaxNodes
Vals == 1..MaxVals

(************************* program constants *******************************)
Null == 0
\* struct node_counter: unsigned internal_count : 30 (MPMCQueue.h:44)
HelpingInternalBits == 30
\* struct node_counter: unsigned internal_count : sizeof(int)-2 (part_000:55)
SizeofInt == 4
PlainInternalBits == SizeofInt - 2
\* unsigned external_counters : 2
ExternalBits == 2

RECURSIVE Pow2(_)
Pow2(n) == IF n = 0 THEN 1 ELSE 2 * Pow2(n - 1)

InternalBits(v) == IF v = "helping" THEN HelpingInternalBits ELSE PlainInternalBits
InternalMod(v) == Pow2(InternalBits(v))
ExternalMod == Pow2(ExternalBits)

\* arithmetic of an unsigned bit-field of modulus m
Wrap(x, m) == ((x % m) + m) % m

(************************* data structures *********************************)
\* struct counted_node_pointer { int external_count; node* node_ptr; }
CP(c, p) == [cnt |-> c, ptr |-> p]
NullCP == CP(0, Null)

\* struct node_counter
NC(i, e) == [ic |-> i, ec |-> e]

\* a node constructed with external_counters = 1: a faulty variant
FreshNodeOneCounter == [data |-> Null, cnt |-> NC(0, 1), next |-> NullCP, st |-> "live", by |-> "none"]

\* node::node(): next = {0,nullptr}; internal_count = 0; external_counters = 2; data = nullptr
FreshNode == [data |-> Null, cnt |-> NC(0, 2), next |-> NullCP, st |-> "live", by |-> "none"]

\* storage that no `new node` has returned yet
FreeNode == [data |-> Null, cnt |-> NC(0, 0), next |-> NullCP, st |-> "free", by |-> "none"]

\* the address the next `new node` returns
NewNode(m) == CHOOSE n \in Nodes : m[n].st = "free" /\ \A k \in Nodes : k < n => m[k].st # "free"
CanAlloc(m) == \E n \in Nodes : m[n].st = "free"

\* What a thread reads through a pointer to node n.  Reading a deleted node is
\* undefined: the storage still holds its last contents, or has been handed
\* out again and holds a freshly constructed node.
Views(n) == IF mem[n].st = "dead"
              THEN {mem[n], [FreshNode EXCEPT !.st = "dead", !.by = mem[n].by]}
              ELSE {mem[n]}

\* `delete p`
Deleted(nd, who) == [nd EXCEPT !.st = "dead", !.by = who]

(************************* per-thread state ********************************)
IdleThread == [pc |-> "idle", old |-> NullCP, newt |-> NullCP, mynode |-> Null,
               val |-> Null, stnew |-> NullCP, saved |-> Null, rc |-> NC(0, 0),
               rn |-> Null, inc |-> 0, ret |-> "idle", res |-> Null,
               tries |-> 0, solo |-> FALSE, seen |-> {}, pend |-> {}]

AllIdle == \A t \in Threads : th[t].pc = "idle"
\* the environment of the queue: the threads the scheduler has suspended, the
\* thread it lets run (0: any), the preemptions it has made, whether the
\* queue object has been destroyed, the allocations it has let fail, and, once
\* the queue has been moved, which object the threads call ("dst": the
\* move-constructed one, "src": the moved-from one; head and tail are the
\* slots of that object and stash holds the slots of the other one)
InitEnv == [susp |-> {}, cur |-> 0, pre |-> 0, gone |-> FALSE, oom |-> 0,
            obj |-> "only", stash |-> [head |-> NullCP, tail |-> NullCP]]
Running(t) == t \notin env.susp /\ env.cur \in {0, t}

InFlight(t) == th[t].pc # "idle"
Overlaps(t) == \E u \in Threads \ {t} : InFlight(u)

\* History of the calls (ghost state; only nval, the number of payloads
\* constructed so far, is read by the model of the program).
\*   ret      values whose push has returned      popcnt    times a pop returned each value
\*   taken    values whose node head has left     before[v] ret when push(v) was called
\*   seq      no two calls have overlapped so far ref       reference FIFO while seq
\*   drained  the last call to return was a pop that overlapped no call and returned no value
\*   thrown   payloads of the push calls that an allocation failure ended
InitHist == [nval |-> 0, ret |-> {}, popcnt |-> [v \in Vals |-> 0],
             taken |-> {}, before |-> [v \in Vals |-> {}],
             uaf |-> FALSE, dfree |-> FALSE, drained |-> FALSE,
             seq |-> TRUE, ref |-> <<>>, lastexp |-> Null, lastgot |-> Null,
             linOK |-> TRUE, rtOK |-> TRUE, emptyOK |-> TRUE,
             destroyed |-> [v \in Vals |-> 0], thrown |-> {},
             inst |-> {}, reinst |-> FALSE]

\* the payload CAS of a push succeeds on node n, which is in use
Installed(h, n) == IF mem[n].st # "live" THEN h
                   ELSE [h EXCEPT !.inst = @ \cup {n}, !.reinst = @ \/ n \in h.inst]

\* a thread touches a field of node n
Touch(h, n) == IF mem[n].st = "live" THEN h ELSE [h EXCEPT !.uaf = TRUE]

(********************** reference-count arithmetic *************************)
\* node::release_reference: --new_counter.internal_count
ReleaseCount(c, v) == NC(Wrap(c.ic - 1, InternalMod(v)), c.ec)

\* free_external_count: internal_count += external_count - 2; --external_counters
RetireCount(c, ext, v) == NC(Wrap(c.ic + (ext - 2), InternalMod(v)), Wrap(c.ec - 1, ExternalMod))

\* faulty variants of the deletion test: one count is not looked at
ShouldDeleteInternalOnly(c) == c.ic = 0
ShouldDeleteExternalOnly(c) == c.ec = 0

\* if(!new_count.internal_count && !new_count.external_counters)
ShouldDelete(c) == c.ic = 0 /\ c.ec = 0

\* a call begins: every call already in flight now overlaps another call
CallTh(t, r) == [u \in Threads |-> IF u = t THEN r ELSE [th[u] EXCEPT !.solo = FALSE]]

Step(t, r) == th' = [th EXCEPT ![t] = r]

(******************************* push **************************************)
\* push(): new T, new node (both variants allocate the payload and one node
\* before the first shared access); new_tail.external_count = 1
PushCall(t) ==
  /\ Running(t) /\ th[t].pc = "idle" /\ plan[t].push > 0 /\ ~env.gone
  /\ hist.nval < MaxVals /\ CanAlloc(mem)
  /\ LET n == NewNode(mem) IN
       /\ mem' = [mem EXCEPT ![n] = FreshNode]
       /\ th' = CallTh(t, [IdleThread EXCEPT !.pc = "p_load", !.mynode = n,
                               !.val = hist.nval + 1, !.newt = CP(1, n)])
  /\ plan' = [plan EXCEPT ![t].push = @ - 1]
  /\ hist' = [hist EXCEPT !.nval = @ + 1, !.drained = FALSE,
                          !.before[hist.nval + 1] = hist.ret,
                          !.seq = @ /\ ~Overlaps(t),
                          !.ref = IF hist.seq /\ ~Overlaps(t) THEN @ ELSE <<>>,
                          !.lastexp = Null, !.lastgot = Null]
  /\ UNCHANGED <<others, variant, head, tail, env>>

\* counted_node_pointer old_tail = tail.load()
PushLoadTail(t) ==
  /\ Running(t) /\ th[t].pc = "p_load"
  /\ Step(t, [th[t] EXCEPT !.pc = "p_acq", !.old = tail])
  /\ UNCHANGED <<others, variant, mem, head, tail, plan, env, hist>>

\* increase_ref_count(old_tail, tail): one attempt of the CAS loop
PushAcquire(t) ==
  /\ Running(t) /\ th[t].pc = "p_acq"
  /\ IF tail = th[t].old
       THEN /\ tail.cnt < MaxExt
            /\ tail' = CP(tail.cnt + 1, tail.ptr)
            /\ Step(t, [th[t] EXCEPT !.pc = "p_data", !.old = CP(tail.cnt + 1, tail.ptr)])
       ELSE /\ tail' = tail
            /\ Step(t, [th[t] EXCEPT !.old = tail])
  /\ UNCHANGED <<others, variant, mem, head, plan, env, hist>>

\* old_tail.node_ptr->data.compare_exchange_strong(old_data, data_ptr.get())
PushData(t) ==
  /\ Running(t) /\ th[t].pc = "p_data" /\ th[t].old.ptr # Null
  /\ LET n == th[t].old.ptr IN
     \E v \in Views(n) :
       /\ hist' = IF v.data = Null THEN Installed(Touch(hist, n), n) ELSE Touch(hist, n)
       /\ IF v.data = Null
            THEN /\ mem' = [mem EXCEPT ![n] = [v EXCEPT !.data = th[t].val]]
                 /\ Step(t, [th[t] EXCEPT !.pc = IF variant = "helping" THEN "p_next_w" ELSE "p_link"])
            ELSE /\ mem' = mem
                 /\ Step(t, IF variant = "helping"
                              THEN [th[t] EXCEPT !.pc = "p_next_h", !.tries = @ + 1]
                              ELSE [th[t] EXCEPT !.pc = "rel_load", !.rn = n, !.ret = "p_acq",
                                                 !.tries = @ + 1])
  /\ UNCHANGED <<others, variant, head, tail, plan, env>>

\* helping, the thread that installed the payload (MPMCQueue.h:191-199):
\* CAS next from {0} to new_tail; on failure delete the own node and take old_next
PushNextWinner(t) ==
  /\ Running(t) /\ th[t].pc = "p_next_w" /\ th[t].old.ptr # Null
  /\ LET n == th[t].old.ptr
         own == th[t].mynode IN
     \E v \in Views(n) :
       /\ hist' = Touch(hist, n)
       /\ IF v.next = NullCP
            THEN /\ mem' = [mem EXCEPT ![n] = [v EXCEPT !.next = th[t].newt]]
                 /\ Step(t, [th[t] EXCEPT !.pc = "st_cas", !.stnew = th[t].newt,
                                         !.saved = n, !.ret = "p_ret"])
            ELSE /\ mem' = [mem EXCEPT ![own] = Deleted(mem[own], "owner")]
                 /\ Step(t, [th[t] EXCEPT !.pc = "st_cas", !.stnew = v.next, !.newt = v.next,
                                         !.mynode = Null, !.saved = n, !.ret = "p_ret"])
  /\ UNCHANGED <<others, variant, head, tail, plan, env>>

\* faulty variant of the helper: when its CAS on next fails it passes its own
\* node, not the successor it found, to set_tail_node
PushNextHelperOwnNode(t) ==
  /\ Running(t) /\ th[t].pc = "p_next_h" /\ th[t].old.ptr # Null
  /\ LET n == th[t].old.ptr IN
     \E v \in Views(n) :
       /\ hist' = Touch(hist, n)
       /\ IF v.next = NullCP
            THEN /\ CanAlloc(mem)
                 /\ LET k == NewNode(mem) IN
                      /\ mem' = [mem EXCEPT ![n] = [v EXCEPT !.next = th[t].newt], ![k] = FreshNode]
                      /\ Step(t, [th[t] EXCEPT !.pc = "st_cas", !.stnew = th[t].newt,
                                              !.mynode = k, !.newt = CP(1, k),
                                              !.saved = n, !.ret = "p_acq"])
            ELSE /\ mem' = mem
                 /\ Step(t, [th[t] EXCEPT !.pc = "st_cas", !.stnew = th[t].newt,
                                         !.saved = n, !.ret = "p_acq"])
  /\ UNCHANGED <<others, variant, head, tail, plan, env>>

\* helping, a thread that lost the payload race (MPMCQueue.h:207-215):
\* CAS next from {0} to new_tail; on success allocate a replacement node
PushNextHelper(t) ==
  /\ Running(t) /\ th[t].pc = "p_next_h" /\ th[t].old.ptr # Null
  /\ LET n == th[t].old.ptr IN
     \E v \in Views(n) :
       /\ hist' = Touch(hist, n)
       /\ IF v.next = NullCP
            THEN /\ CanAlloc(mem)
                 /\ LET k == NewNode(mem) IN
                      /\ mem' = [mem EXCEPT ![n] = [v EXCEPT !.next = th[t].newt], ![k] = FreshNode]
                      /\ Step(t, [th[t] EXCEPT !.pc = "st_cas", !.stnew = th[t].newt,
                                              !.mynode = k, !.newt = CP(1, k),
                                              !.saved = n, !.ret = "p_acq"])
            ELSE /\ mem' = mem
                 /\ Step(t, [th[t] EXCEPT !.pc = "st_cas", !.stnew = v.next,
                                         !.saved = n, !.ret = "p_acq"])
  /\ UNCHANGED <<others, variant, head, tail, plan, env>>

\* faulty variant of set_tail_node: only the thread that installed the payload
\* swings tail; a helper waits until tail has left the node
SetTailNodeWinnerOnly(t) ==
  /\ Running(t) /\ th[t].pc = "st_cas"
  /\ IF tail = th[t].old /\ th[t].ret = "p_ret"
       THEN /\ tail' = th[t].stnew
            /\ Step(t, [th[t] EXCEPT !.pc = "fx_load", !.rn = th[t].old.ptr,
                                    !.inc = th[t].old.cnt, !.stnew = NullCP, !.saved = Null])
       ELSE /\ tail' = tail
            /\ Step(t, IF tail.ptr = th[t].saved
                         THEN [th[t] EXCEPT !.old = tail]
                         ELSE [th[t] EXCEPT !.old = tail, !.pc = "rel_load", !.rn = th[t].saved,
                                            !.stnew = NullCP, !.saved = Null])
  /\ UNCHANGED <<others, variant, mem, head, plan, env, hist>>

\* set_tail_node: one attempt of tail.compare_exchange_weak(old_tail, new_tail),
\* the loop test old_tail.node_ptr == saved_ptr and the branch after the loop
SetTailNode(t) ==
  /\ Running(t) /\ th[t].pc = "st_cas"
  /\ IF tail = th[t].old
       THEN /\ tail' = th[t].stnew
            /\ Step(t, [th[t] EXCEPT !.pc = "fx_load", !.rn = th[t].old.ptr,
                                    !.inc = th[t].old.cnt, !.stnew = NullCP, !.saved = Null])
       ELSE /\ tail' = tail
            /\ Step(t, IF tail.ptr = th[t].saved
                         THEN [th[t] EXCEPT !.old = tail]
                         ELSE [th[t] EXCEPT !.old = tail, !.pc = "rel_load", !.rn = th[t].saved,
                                            !.stnew = NullCP, !.saved = Null])
  /\ UNCHANGED <<others, variant, mem, head, plan, env, hist>>

\* plain (part_000:167): old_tail.node_ptr->next = new_tail
PushLink(t) ==
  /\ Running(t) /\ th[t].pc = "p_link" /\ th[t].old.ptr # Null
  /\ LET n == th[t].old.ptr IN
     \E v \in Views(n) :
       /\ hist' = Touch(hist, n)
       /\ mem' = [mem EXCEPT ![n] = [v EXCEPT !.next = th[t].newt]]
       /\ Step(t, [th[t] EXCEPT !.pc = "p_xchg"])
  /\ UNCHANGED <<others, variant, head, tail, plan, env>>

\* plain (part_000:168-169): old_tail = tail.exchange(new_tail); free_external_count(old_tail)
PushExchange(t) ==
  /\ Running(t) /\ th[t].pc = "p_xchg"
  /\ tail' = th[t].newt
  /\ Step(t, [th[t] EXCEPT !.pc = "fx_load", !.old = tail, !.rn = tail.ptr,
                          !.inc = tail.cnt, !.ret = "p_ret"])
  /\ UNCHANGED <<others, variant, mem, head, plan, env, hist>>

\* data_ptr.release(); node_ptr.release(); return
PushReturn(t) ==
  /\ Running(t) /\ th[t].pc = "p_ret"
  /\ Step(t, IdleThread)
  /\ hist' = [hist EXCEPT !.ret = @ \cup {th[t].val},
                          !.ref = IF hist.seq THEN Append(@, th[t].val) ELSE <<>>]
  /\ UNCHANGED <<others, variant, mem, head, tail, plan, env>>

(************************* allocation failure ******************************)
\* push() ended by std::bad_alloc before push_impl touches the queue.
\*   plain (part_000:232-233): new node throws, or new T throws and the
\*     unique_ptr deletes the node just allocated;
\*   helping (MPMCQueue.h:269, 176): new T throws, or new node throws and the
\*     unique_ptr destroys the payload just constructed.
PushCallFail(t) ==
  /\ Running(t) /\ th[t].pc = "idle" /\ plan[t].push > 0 /\ ~env.gone
  /\ env.oom < MaxFail
  /\ \E second \in BOOLEAN :
       IF ~second
         THEN mem' = mem /\ hist' = hist
         ELSE IF variant = "plain"
           THEN /\ CanAlloc(mem)
                /\ mem' = [mem EXCEPT ![NewNode(mem)] = Deleted(FreshNode, "owner")]
                /\ hist' = hist
           ELSE /\ hist.nval < MaxVals
                /\ mem' = mem
                /\ hist' = [hist EXCEPT !.nval = @ + 1, !.thrown = @ \cup {hist.nval + 1},
                                        !.destroyed[hist.nval + 1] = @ + 1]
  /\ plan' = [plan EXCEPT ![t].push = @ - 1]
  /\ env' = [env EXCEPT !.oom = @ + 1]
  /\ UNCHANGED <<others, variant, head, tail, th>>

\* helping (MPMCQueue.h:209-213): the helper's CAS on next has linked its node,
\* node_ptr.release(), and node_ptr.reset(new node) throws: push_impl is left
\* through the exception, the unique_ptr destroys the payload
PushNextHelperFail(t) ==
  /\ Running(t) /\ th[t].pc = "p_next_h" /\ th[t].old.ptr # Null
  /\ env.oom < MaxFail
  /\ LET n == th[t].old.ptr IN
     \E v \in Views(n) :
       /\ v.next = NullCP
       /\ mem' = [mem EXCEPT ![n] = [v EXCEPT !.next = th[t].newt]]
       /\ hist' = [Touch(hist, n) EXCEPT !.thrown = @ \cup {th[t].val},
                                         !.destroyed[th[t].val] = @ + 1]
  /\ Step(t, IdleThread)
  /\ env' = [env EXCEPT !.oom = @ + 1]
  /\ UNCHANGED <<others, variant, head, tail, plan>>

(************************ release / retire *********************************)
\* release_reference: node_counter old_counter = node_count.load()
ReleaseLoad(t) ==
  /\ Running(t) /\ th[t].pc = "rel_load" /\ th[t].rn # Null
  /\ \E v \in Views(th[t].rn) :
       Step(t, [th[t] EXCEPT !.pc = "rel_cas", !.rc = v.cnt])
  /\ hist' = Touch(hist, th[t].rn)
  /\ UNCHANGED <<others, variant, mem, head, tail, plan, env>>

\* release_reference: one attempt of node_count.compare_exchange_strong
ReleaseCas(t) ==
  /\ Running(t) /\ th[t].pc = "rel_cas" /\ th[t].rn # Null
  /\ LET n == th[t].rn IN
     \E v \in Views(n) :
       /\ hist' = Touch(hist, n)
       /\ IF v.cnt = th[t].rc
            THEN LET c == ReleaseCount(v.cnt, variant) IN
                 /\ mem' = [mem EXCEPT ![n] = [v EXCEPT !.cnt = c]]
                 /\ Step(t, [th[t] EXCEPT !.pc = IF ShouldDelete(c) THEN "rel_del" ELSE th[t].ret,
                                         !.rc = NC(0, 0),
                                         !.rn = IF ShouldDelete(c) THEN n ELSE Null])
            ELSE /\ mem' = mem
                 /\ Step(t, [th[t] EXCEPT !.rc = v.cnt])
  /\ UNCHANGED <<others, variant, head, tail, plan, env>>

\* release_reference: delete this
ReleaseDelete(t) ==
  /\ Running(t) /\ th[t].pc = "rel_del"
  /\ LET n == th[t].rn IN
       /\ mem' = [mem EXCEPT ![n] = Deleted(mem[n], "release")]
       /\ hist' = IF mem[n].st = "dead" THEN [hist EXCEPT !.dfree = TRUE] ELSE hist
  /\ Step(t, [th[t] EXCEPT !.pc = th[t].ret, !.rn = Null])
  /\ UNCHANGED <<others, variant, head, tail, plan, env>>

\* free_external_count: num_increase = external_count - 2 (kept in inc as the
\* external_count); node_counter old_count = node_ptr->node_count.load()
RetireLoad(t) ==
  /\ Running(t) /\ th[t].pc = "fx_load" /\ th[t].rn # Null
  /\ \E v \in Views(th[t].rn) :
       Step(t, [th[t] EXCEPT !.pc = "fx_cas", !.rc = v.cnt])
  /\ hist' = Touch(hist, th[t].rn)
  /\ UNCHANGED <<others, variant, mem, head, tail, plan, env>>

\* free_external_count: one attempt of node_count.compare_exchange_strong
RetireCas(t) ==
  /\ Running(t) /\ th[t].pc = "fx_cas" /\ th[t].rn # Null
  /\ LET n == th[t].rn IN
     \E v \in Views(n) :
       /\ hist' = Touch(hist, n)
       /\ IF v.cnt = th[t].rc
            THEN LET c == RetireCount(v.cnt, th[t].inc, variant) IN
                 /\ mem' = [mem EXCEPT ![n] = [v EXCEPT !.cnt = c]]
                 /\ Step(t, [th[t] EXCEPT !.pc = IF ShouldDelete(c) THEN "fx_del" ELSE th[t].ret,
                                         !.rc = NC(0, 0), !.inc = 0,
                                         !.rn = IF ShouldDelete(c) THEN n ELSE Null])
            ELSE /\ mem' = mem
                 /\ Step(t, [th[t] EXCEPT !.rc = v.cnt])
  /\ UNCHANGED <<others, variant, head, tail, plan, env>>

\* free_external_count: delete node_ptr
RetireDelete(t) ==
  /\ Running(t) /\ th[t].pc = "fx_del"
  /\ LET n == th[t].rn IN
       /\ mem' = [mem EXCEPT ![n] = Deleted(mem[n], "retire")]
       /\ hist' = IF mem[n].st = "dead" THEN [hist EXCEPT !.dfree = TRUE] ELSE hist
  /\ Step(t, [th[t] EXCEPT !.pc = th[t].ret, !.rn = Null])
  /\ UNCHANGED <<others, variant, head, tail, plan, env>>

(******************************** pop **************************************)
\* pop(): counted_node_pointer old_head = head.load()
PopCall(t) ==
  /\ Running(t) /\ th[t].pc = "idle" /\ plan[t].pop > 0 /\ ~env.gone
  /\ th' = CallTh(t, [IdleThread EXCEPT !.pc = "o_acq", !.old = head,
                          !.solo = ~Overlaps(t),
                          !.seen = {v \in Vals : hist.popcnt[v] > 0},
                          !.pend = hist.ret \ hist.taken])
  /\ plan' = [plan EXCEPT ![t].pop = @ - 1]
  /\ hist' = [hist EXCEPT !.drained = FALSE,
                          !.seq = @ /\ ~Overlaps(t),
                          !.ref = IF hist.seq /\ ~Overlaps(t) THEN @ ELSE <<>>,
                          !.lastexp = Null, !.lastgot = Null]
  /\ UNCHANGED <<others, variant, mem, head, tail, env>>

\* increase_ref_count(old_head, head): one attempt of the CAS loop; node* ptr = old_head.node_ptr
PopAcquire(t) ==
  /\ Running(t) /\ th[t].pc = "o_acq"
  /\ IF head = th[t].old
       THEN /\ head.cnt < MaxExt
            /\ head' = CP(head.cnt + 1, head.ptr)
            /\ Step(t, [th[t] EXCEPT !.pc = "o_tail", !.old = CP(head.cnt + 1, head.ptr),
                                    !.saved = head.ptr])
       ELSE /\ head' = head
            /\ Step(t, [th[t] EXCEPT !.old = head])
  /\ UNCHANGED <<others, variant, mem, tail, plan, env, hist>>

\* if(ptr == tail.load().node_ptr) { ptr->release_reference(); return {}; }
PopLoadTail(t) ==
  /\ Running(t) /\ th[t].pc = "o_tail"
  /\ Step(t, IF th[t].saved = tail.ptr
               THEN [th[t] EXCEPT !.pc = "rel_load", !.rn = th[t].saved, !.ret = "o_ret",
                                  !.res = Null, !.saved = Null, !.old = NullCP]
               ELSE [th[t] EXCEPT !.pc = "o_next"])
  /\ UNCHANGED <<others, variant, mem, head, tail, plan, env, hist>>

\* counted_node_pointer next = ptr->next.load()   (plain: the read of ptr->next)
PopLoadNext(t) ==
  /\ Running(t) /\ th[t].pc = "o_next" /\ th[t].saved # Null
  /\ \E v \in Views(th[t].saved) :
       Step(t, [th[t] EXCEPT !.pc = "o_cas", !.stnew = v.next])
  /\ hist' = Touch(hist, th[t].saved)
  /\ UNCHANGED <<others, variant, mem, head, tail, plan, env>>

\* faulty variant of pop: the result of the CAS on head is not looked at, the
\* thread takes the payload also when another pop has advanced head
PopCasUnchecked(t) ==
  /\ Running(t) /\ th[t].pc = "o_cas"
  /\ head' = IF head = th[t].old THEN th[t].stnew ELSE head
  /\ Step(t, [th[t] EXCEPT !.pc = "o_take", !.stnew = NullCP])
  /\ hist' = hist
  /\ UNCHANGED <<others, variant, mem, tail, plan, env>>

\* head.compare_exchange_strong(old_head, next); on failure ptr->release_reference()
PopCas(t) ==
  /\ Running(t) /\ th[t].pc = "o_cas"
  /\ IF head = th[t].old
       THEN /\ head' = th[t].stnew
            /\ Step(t, [th[t] EXCEPT !.pc = "o_take", !.stnew = NullCP])
            /\ LET a == IF th[t].saved = Null THEN Null ELSE mem[th[t].saved].data IN
                 hist' = IF a \in Vals
                           THEN [hist EXCEPT !.taken = @ \cup {a},
                                             !.linOK = @ /\ \A b \in hist.taken : a \notin hist.before[b]]
                           ELSE hist
       ELSE /\ head' = head
            /\ Step(t, [th[t] EXCEPT !.pc = "rel_load", !.old = head, !.rn = th[t].saved,
                                    !.ret = "o_acq", !.stnew = NullCP, !.saved = Null])
            /\ hist' = hist
  /\ UNCHANGED <<others, variant, mem, tail, plan, env>>

\* helping: data(ptr->data.exchange(nullptr)); plain: data(ptr->data.load());
\* then free_external_count(old_head)
PopTake(t) ==
  /\ Running(t) /\ th[t].pc = "o_take" /\ th[t].saved # Null
  /\ LET n == th[t].saved IN
     \E v \in Views(n) :
       /\ hist' = Touch(hist, n)
       /\ mem' = IF variant = "helping" THEN [mem EXCEPT ![n] = [v EXCEPT !.data = Null]] ELSE mem
       /\ Step(t, [th[t] EXCEPT !.pc = "fx_load", !.res = v.data, !.rn = n,
                               !.inc = th[t].old.cnt, !.ret = "o_ret",
                               !.saved = Null, !.old = NullCP])
  /\ UNCHANGED <<others, variant, head, tail, plan, env>>

\* return data / return {}
PopReturn(t) ==
  /\ Running(t) /\ th[t].pc = "o_ret"
  /\ Step(t, IdleThread)
  /\ LET r == th[t].res
         exp == IF hist.ref = <<>> THEN Null ELSE Head(hist.ref) IN
       hist' = [hist EXCEPT
                  !.popcnt = IF r \in Vals THEN [@ EXCEPT ![r] = @ + 1] ELSE @,
                  !.drained = (r = Null) /\ th[t].solo,
                  !.lastexp = IF hist.seq THEN exp ELSE Null,
                  !.lastgot = IF hist.seq THEN r ELSE Null,
                  !.ref = IF hist.ref = <<>> THEN <<>> ELSE Tail(hist.ref),
                  !.rtOK = @ /\ (r \in Vals => \A u \in th[t].seen : r \notin hist.before[u]),
                  !.emptyOK = @ /\ (r = Null => th[t].pend \subseteq hist.taken)]
  /\ UNCHANGED <<others, variant, mem, head, tail, plan, env>>

(***************************** destruction ********************************)
\* part_000:202-219, the loop of ~MPMCQueue from node p to the tail node q:
\*   ptr_next = head_ptr->next.node_ptr; unique_ptr<T> head_data{head_ptr->data.load()};
\*   delete head_ptr; head_ptr = ptr_next;        and after the loop: delete head_ptr
\* (a null head_ptr ends the walk; a node already deleted is read as it was left)
RECURSIVE DtorWalk(_, _, _, _)
DtorWalk(m, h, p, q) ==
  IF p = Null THEN [mem |-> m, hist |-> h]
  ELSE LET h1 == IF m[p].st = "live" THEN h ELSE [h EXCEPT !.dfree = TRUE]
           m1 == [m EXCEPT ![p] = Deleted(m[p], "dtor")]
       IN IF p = q
            THEN [mem |-> m1, hist |-> h1]
            ELSE DtorWalk(m1,
                          IF m[p].data \in Vals
                            THEN [h1 EXCEPT !.destroyed[m[p].data] = @ + 1]
                            ELSE h1,
                          m[p].next.ptr, q)

\* ~MPMCQueue(), run by the owner while no call is in flight.  The helping
\* variant's destructor body is commented out (MPMCQueue.h:244-264).
Destroy ==
  /\ AllIdle /\ ~env.gone
  /\ env' = [env EXCEPT !.gone = TRUE]
  /\ LET w == DtorWalk(mem, hist, head.ptr, tail.ptr) IN
       IF variant = "plain"
         THEN mem' = w.mem /\ hist' = w.hist
         ELSE mem' = mem /\ hist' = hist
  /\ UNCHANGED <<others, variant, head, tail, th, plan>>

(***************************** move *****************************************)
\* MPMCQueue(MPMCQueue&& other) : head(other.head.load()), tail(other.tail.load())
\*   { other.head = {0,0}; other.tail = {0,0}; }     (helping variant only)
MoveQueue ==
  /\ AllIdle /\ ~env.gone /\ env.obj = "only" /\ variant = "helping"
  /\ env' = [env EXCEPT !.obj = "dst", !.stash = [head |-> NullCP, tail |-> NullCP]]
  /\ UNCHANGED <<others, variant, mem, head, tail, th, plan, hist>>

\* with no call in flight, the threads turn to the other of the two objects
UseOther ==
  /\ AllIdle /\ env.obj \in {"dst", "src"}
  /\ head' = env.stash.head /\ tail' = env.stash.tail
  /\ env' = [env EXCEPT !.obj = IF @ = "dst" THEN "src" ELSE "dst",
                        !.stash = [head |-> head, tail |-> tail]]
  /\ UNCHANGED <<others, variant, mem, th, plan, hist>>

(****************************** scheduler **********************************)
\* the scheduler stops thread t in the middle of a call and never resumes it
Suspend(t) ==
  /\ InFlight(t) /\ t \notin env.susp
  /\ Cardinality(env.susp) < MaxSusp
  /\ env' = [env EXCEPT !.susp = @ \cup {t}]
  /\ UNCHANGED <<others, variant, mem, head, tail, th, plan, hist>>

\* One processor: the scheduler takes it from the running thread and gives it
\* to thread u.  It does so when the running thread has made all its calls, or
\* (a preemption) right after the running thread has checked a node out with
\* increase_ref_count, the window the split reference count protects.  Of the
\* threads that have not started and have the same calls left to make, the
\* lowest-numbered one is taken: they are interchangeable.
Dispatch(u) ==
  /\ env.cur # 0 /\ u # env.cur
  /\ InFlight(u) \/ plan[u].push + plan[u].pop > 0
  /\ InFlight(u) \/ \A w \in Threads : w < u /\ w # env.cur /\ ~InFlight(w) => plan[w] # plan[u]
  /\ IF InFlight(env.cur)
       THEN th[env.cur].pc \in {"p_data", "o_tail"} /\ env.pre < MaxPreempt
       ELSE plan[env.cur].push + plan[env.cur].pop = 0
  /\ env' = [env EXCEPT !.cur = u, !.pre = IF InFlight(env.cur) THEN @ + 1 ELSE @]
  /\ UNCHANGED <<others, variant, mem, head, tail, th, plan, hist>>

(******************************* Spinlock **********************************)
\* SpinLock.h: class Spinlock { std::atomic_flag m_locked; }
\*   locked   m_locked                       pc[t]   where thread t is
\*   rep[t]   repeatCount of t's lock()      try     the tryLock() that has just returned:
\*   holders  (ghost) the threads between a            its thread, what it returned and who
\*            successful acquire and unlock            held the lock when it was called
LockThreads == 1..MaxLockThreads

\* the threads that take the lock with lock(); every thread uses tryLock()
Spinners == {1, 2}

\* int repeatCount = 100 (SpinLock.h:40)
RepeatCount == 100

NoTry == [who |-> 0, ret |-> FALSE, held |-> {}]

\* Spinlock(): m_locked.clear()
InitSpinlock == [locked |-> FALSE,
                 pc |-> [t \in LockThreads |-> "idle"],
                 rep |-> [t \in LockThreads |-> 0],
                 try |-> NoTry,
                 holders |-> {}]

\* m_locked.test_and_set(): the value before, and the flag set
TestAndSet(flag) == [old |-> flag, new |-> TRUE]

\* lock(): int repeatCount = 100
LockCall(t) ==
  /\ spin.pc[t] = "idle" /\ t \in Spinners
  /\ spin' = [spin EXCEPT !.pc[t] = "l_tas", !.rep[t] = RepeatCount, !.try = NoTry]
  /\ UNCHANGED <<variant, mem, head, tail, th, plan, env, hist, mtq, tp>>

\* lock(): one round of while(true): test_and_set; set: --repeatCount, and at
\* 0 back to 100 (the delay is commented out); clear: break
LockTas(t) ==
  /\ spin.pc[t] = "l_tas"
  /\ LET r == TestAndSet(spin.locked) IN
       spin' = IF r.old
                 THEN [spin EXCEPT !.locked = r.new, !.try = NoTry,
                                   !.rep[t] = IF @ - 1 = 0 THEN RepeatCount ELSE @ - 1]
                 ELSE [spin EXCEPT !.locked = r.new, !.pc[t] = "held", !.rep[t] = 0,
                                   !.try = NoTry, !.holders = @ \cup {t}]
  /\ UNCHANGED <<variant, mem, head, tail, th, plan, env, hist, mtq, tp>>

\* a tryLock() that returns its test_and_set as it is: a faulty variant
TryLockNotNegated(t) ==
  /\ spin.pc[t] = "idle"
  /\ LET r == TestAndSet(spin.locked) IN
       spin' = [spin EXCEPT !.locked = r.new,
                            !.try = [who |-> t, ret |-> r.old, held |-> spin.holders],
                            !.pc[t] = IF r.old THEN "held" ELSE "idle",
                            !.holders = IF r.old THEN @ \cup {t} ELSE @]
  /\ UNCHANGED <<variant, mem, head, tail, th, plan, env, hist, mtq, tp>>

\* tryLock(): return !m_locked.test_and_set()
TryLock(t) ==
  /\ spin.pc[t] = "idle"
  /\ LET r == TestAndSet(spin.locked) IN
       spin' = [spin EXCEPT !.locked = r.new,
                            !.try = [who |-> t, ret |-> ~r.old, held |-> spin.holders],
                            !.pc[t] = IF ~r.old THEN "held" ELSE "idle",
                            !.holders = IF ~r.old THEN @ \cup {t} ELSE @]
  /\ UNCHANGED <<variant, mem, head, tail, th, plan, env, hist, mtq, tp>>

\* unlock(): m_locked.clear(), called by the thread that holds the lock
Unlock(t) ==
  /\ spin.pc[t] = "held"
  /\ spin' = [spin EXCEPT !.locked = FALSE, !.pc[t] = "idle", !.holders = @ \ {t},
                       !.try = NoTry]
  /\ UNCHANGED <<variant, mem, head, tail, th, plan, env, hist, mtq, tp>>

(******************************* MTQueue ***********************************)
\* MTQueue.h: a queue with one mutex for head and one for tail.
\*   node[k]   struct node { shared_ptr<T> data; unique_ptr<node> next; } and
\*             whether it is allocated          head, tail   the two pointers
\*   head_mut, tail_mut   the thread that holds the mutex, 0 when free
\*   pc[t], loc[t]        where thread t is, and its local variables
\*   nval, npop           calls made so far
\*   order, out (ghost)   the values in the order their pushes took tail_mut,
\*                        and in the order remove_head took their nodes
\*   popcnt (ghost)       how often pop has returned each value
MTThreads == 1..MaxMTThreads
MTVals == 1..MaxMTVals
MTNodes == 1..(MaxMTVals + 1)

MTNode(d, n, a) == [data |-> d, next |-> n, st |-> a]
MTLocal == [val |-> Null, node |-> Null, tl |-> Null, oh |-> Null, was |-> FALSE]

\* MTQueue() : head(new node), tail(head.get())
InitMTQueue == [node |-> [k \in MTNodes |-> IF k = 1 THEN MTNode(Null, Null, "live")
                                            ELSE MTNode(Null, Null, "free")],
                head |-> 1, tail |-> 1, head_mut |-> 0, tail_mut |-> 0,
                pc |-> [t \in MTThreads |-> "idle"],
                loc |-> [t \in MTThreads |-> MTLocal],
                nval |-> 0, npop |-> 0, order |-> <<>>, out |-> <<>>,
                popcnt |-> [v \in MTVals |-> 0]]

MTFrame == UNCHANGED <<variant, mem, head, tail, th, plan, env, hist, spin, tp>>

\* push: new_data(make_shared<T>(val)); new_node(new node); new_tail(new_node.get())
MtPushCall(t) ==
  /\ mtq.pc[t] = "idle" /\ mtq.nval < MaxMTVals
  /\ LET k == CHOOSE n \in MTNodes : mtq.node[n].st = "free" /\
                                     \A m \in MTNodes : m < n => mtq.node[m].st # "free" IN
       mtq' = [mtq EXCEPT !.pc[t] = "pu_lock", !.nval = @ + 1,
                          !.node[k] = MTNode(Null, Null, "live"),
                          !.loc[t] = [MTLocal EXCEPT !.val = mtq.nval + 1, !.node = k]]
  /\ MTFrame

\* a push that does not wait for tail_mut: a faulty variant
MtPushLockNoWait(t) ==
  /\ mtq.pc[t] = "pu_lock"
  /\ mtq' = [mtq EXCEPT !.pc[t] = "pu_data", !.tail_mut = t,
                        !.order = Append(@, mtq.loc[t].val)]
  /\ MTFrame

\* push: std::lock_guard<std::mutex> lock(tail_mut)
MtPushLock(t) ==
  /\ mtq.pc[t] = "pu_lock" /\ mtq.tail_mut = 0
  /\ mtq' = [mtq EXCEPT !.pc[t] = "pu_data", !.tail_mut = t,
                        !.order = Append(@, mtq.loc[t].val)]
  /\ MTFrame

\* push: tail->data = std::move(new_data)
MtPushData(t) ==
  /\ mtq.pc[t] = "pu_data"
  /\ mtq' = [mtq EXCEPT !.pc[t] = "pu_next", !.node[mtq.tail].data = mtq.loc[t].val]
  /\ MTFrame

\* push: tail->next = std::move(new_node)
MtPushNext(t) ==
  /\ mtq.pc[t] = "pu_next"
  /\ mtq' = [mtq EXCEPT !.pc[t] = "pu_tail", !.node[mtq.tail].next = mtq.loc[t].node]
  /\ MTFrame

\* push: tail = new_tail
MtPushTail(t) ==
  /\ mtq.pc[t] = "pu_tail"
  /\ mtq' = [mtq EXCEPT !.pc[t] = "pu_unlock", !.tail = mtq.loc[t].node]
  /\ MTFrame

\* push: the lock_guard releases tail_mut; return
MtPushUnlock(t) ==
  /\ mtq.pc[t] = "pu_unlock"
  /\ mtq' = [mtq EXCEPT !.pc[t] = "idle", !.tail_mut = 0, !.loc[t] = MTLocal]
  /\ MTFrame

\* pop: auto old_head = remove_head()
MtPopCall(t) ==
  /\ mtq.pc[t] = "idle" /\ mtq.npop < MaxMTPops
  /\ mtq' = [mtq EXCEPT !.pc[t] = "po_hlock", !.npop = @ + 1, !.loc[t] = MTLocal]
  /\ MTFrame

\* remove_head: std::lock_guard<std::mutex> lock(head_mut)
MtRemoveHeadLock(t) ==
  /\ mtq.pc[t] = "po_hlock" /\ mtq.head_mut = 0
  /\ mtq' = [mtq EXCEPT !.pc[t] = "po_tlock", !.head_mut = t]
  /\ MTFrame

\* get_tail: std::lock_guard<std::mutex> lock(tail_mut)
MtGetTailLock(t) ==
  /\ mtq.pc[t] = "po_tlock" /\ mtq.tail_mut = 0
  /\ mtq' = [mtq EXCEPT !.pc[t] = "po_tread", !.tail_mut = t]
  /\ MTFrame

\* a get_tail that returns with tail_mut still locked: a faulty variant
MtGetTailReturnLocked(t) ==
  /\ mtq.pc[t] = "po_tread"
  /\ mtq' = [mtq EXCEPT !.pc[t] = "po_cmp",
                        !.loc[t].tl = mtq.tail,
                        !.loc[t].was = (Len(mtq.order) = Len(mtq.out))]
  /\ MTFrame

\* get_tail: return tail; the lock_guard releases tail_mut
MtGetTailReturn(t) ==
  /\ mtq.pc[t] = "po_tread"
  /\ mtq' = [mtq EXCEPT !.pc[t] = "po_cmp", !.tail_mut = 0,
                        !.loc[t].tl = mtq.tail,
                        !.loc[t].was = (Len(mtq.order) = Len(mtq.out))]
  /\ MTFrame

\* remove_head: if(head.get() == get_tail()) return nullptr;
\*              std::unique_ptr<node> old_head = std::move(head)
MtRemoveHeadTake(t) ==
  /\ mtq.pc[t] = "po_cmp"
  /\ mtq' = IF mtq.head = mtq.loc[t].tl
              THEN [mtq EXCEPT !.pc[t] = "po_hunlock"]
              ELSE [mtq EXCEPT !.pc[t] = "po_adv", !.loc[t].oh = mtq.head, !.head = Null,
                               !.out = Append(@, mtq.node[mtq.head].data)]
  /\ MTFrame

\* remove_head: head = std::move(old_head->next)
MtRemoveHeadAdvance(t) ==
  /\ mtq.pc[t] = "po_adv"
  /\ LET o == mtq.loc[t].oh IN
       mtq' = [mtq EXCEPT !.pc[t] = "po_hunlock", !.head = mtq.node[o].next,
                          !.node[o].next = Null]
  /\ MTFrame

\* remove_head: return; the lock_guard releases head_mut
MtRemoveHeadUnlock(t) ==
  /\ mtq.pc[t] = "po_hunlock"
  /\ mtq' = [mtq EXCEPT !.pc[t] = "po_ret", !.head_mut = 0]
  /\ MTFrame

\* what pop is about to return: old_head ? old_head->data : std::shared_ptr<T>{}
MtResult(t) == IF mtq.loc[t].oh = Null THEN Null ELSE mtq.node[mtq.loc[t].oh].data

\* pop: return ...; old_head goes out of scope and its node is deleted
MtPopReturn(t) ==
  /\ mtq.pc[t] = "po_ret"
  /\ LET o == mtq.loc[t].oh
         r == MtResult(t) IN
       mtq' = [mtq EXCEPT !.pc[t] = "idle", !.loc[t] = MTLocal,
                          !.node = IF o = Null THEN @ ELSE [@ EXCEPT ![o].st = "dead"],
                          !.popcnt = IF r \in MTVals THEN [@ EXCEPT ![r] = @ + 1] ELSE @]
  /\ MTFrame

MtPushStep(t) ==
  \/ MtPushCall(t) \/ MtPushLock(t) \/ MtPushData(t) \/ MtPushNext(t) \/ MtPushTail(t)
  \/ MtPushUnlock(t)

MtPopStep(t) ==
  \/ MtPopCall(t) \/ MtRemoveHeadLock(t) \/ MtGetTailLock(t) \/ MtGetTailReturn(t)
  \/ MtRemoveHeadTake(t) \/ MtRemoveHeadAdvance(t) \/ MtRemoveHeadUnlock(t) \/ MtPopReturn(t)

(***************************** TaskProcessor *******************************)
\* TaskProcessor.h / TaskProcessor.cpp.
\*   tasks    m_AllTasks (task k is the k-th one added)   lock   m_TasksLock.m_locked
\*   running  m_Running        waiting  the workers blocked in m_Notify.wait
\*   wpc[w], wtask[w]   where worker w is in ExecuteLoop, and the task it took
\*   opc, otask, nadd   where the owner thread is (Add, ~TaskProcessor), the
\*                      task it is adding, the Add calls that have returned
\*   joined   the workers the destructor has joined       spur   spurious wake-ups
\*   taken, runs (ghost)   the tasks in the order they were taken; how often each ran
Workers == 1..MaxWorkers
Tasks == 1..MaxTasks

\* TaskProcessor(): m_Running(true); every thread starts ExecuteLoop
InitTaskProcessor == [tasks |-> <<>>, lock |-> FALSE, running |-> TRUE, waiting |-> {},
                      wpc |-> [w \in Workers |-> "w_lock"],
                      wtask |-> [w \in Workers |-> 0],
                      opc |-> "idle", otask |-> 0, nadd |-> 0, joined |-> 0, spur |-> 0,
                      taken |-> <<>>, runs |-> [k \in Tasks |-> 0]]

TPFrame == UNCHANGED <<variant, mem, head, tail, th, plan, env, hist, spin, mtq>>

\* Spinlock::lock() on m_TasksLock by a thread now at pc a, going to pc b: the
\* test_and_set that finds the flag clear (one that finds it set changes
\* nothing but the caller's repeatCount)
TpAcquire(r) == ~TestAndSet(r.lock).old

\* Add: task = make_shared<packaged_task>(bind(...)); res = task->get_future()
TpAddCall ==
  /\ tp.opc = "idle" /\ tp.nadd < MaxTasks
  /\ tp' = [tp EXCEPT !.opc = "a_lock", !.otask = tp.nadd + 1]
  /\ TPFrame

\* Add: std::lock_guard<Spinlock> lock(m_TasksLock)
TpAddLock ==
  /\ tp.opc = "a_lock" /\ TpAcquire(tp)
  /\ tp' = [tp EXCEPT !.opc = "a_push", !.lock = TRUE]
  /\ TPFrame

\* Add: m_AllTasks.emplace(m_AllTasks.end(), ...)
TpAddPush ==
  /\ tp.opc = "a_push"
  /\ tp' = [tp EXCEPT !.opc = "a_unlock", !.tasks = Append(@, tp.otask)]
  /\ TPFrame

\* Add: end of the lock_guard's scope
TpAddUnlock ==
  /\ tp.opc = "a_unlock"
  /\ tp' = [tp EXCEPT !.opc = "a_notify", !.lock = FALSE]
  /\ TPFrame

\* an Add that returns without notifying: a faulty variant
TpAddNoNotify ==
  /\ tp.opc = "a_notify"
  /\ tp' = [tp EXCEPT !.opc = "idle", !.otask = 0, !.nadd = @ + 1]
  /\ TPFrame

\* Add: m_Notify.notify_one(); return res
TpAddNotify ==
  /\ tp.opc = "a_notify"
  /\ IF tp.waiting = {}
       THEN tp' = [tp EXCEPT !.opc = "idle", !.otask = 0, !.nadd = @ + 1]
       ELSE \E w \in tp.waiting :
              tp' = [tp EXCEPT !.opc = "idle", !.otask = 0, !.nadd = @ + 1,
                               !.waiting = @ \ {w}, !.wpc[w] = "w_relock"]
  /\ TPFrame

\* ~TaskProcessor: std::lock_guard<Spinlock> lock(m_TasksLock)
TpDtorLock ==
  /\ tp.opc = "idle" /\ TpAcquire(tp)
  /\ tp' = [tp EXCEPT !.opc = "d_set", !.lock = TRUE]
  /\ TPFrame

\* ~TaskProcessor: m_Running = false
TpDtorSet ==
  /\ tp.opc = "d_set"
  /\ tp' = [tp EXCEPT !.opc = "d_unlock", !.running = FALSE]
  /\ TPFrame

\* ~TaskProcessor: end of the lock_guard's scope
TpDtorUnlock ==
  /\ tp.opc = "d_unlock"
  /\ tp' = [tp EXCEPT !.opc = "d_notify", !.lock = FALSE]
  /\ TPFrame

\* ~TaskProcessor: m_Notify.notify_all()
TpDtorNotifyAll ==
  /\ tp.opc = "d_notify"
  /\ tp' = [tp EXCEPT !.opc = "d_join", !.waiting = {},
                      !.wpc = [w \in Workers |-> IF w \in tp.waiting THEN "w_relock" ELSE @[w]]]
  /\ TPFrame

\* ~TaskProcessor: for (auto &t : m_Threads) t.join(); return
TpDtorJoin ==
  /\ tp.opc = "d_join"
  /\ IF tp.joined = MaxWorkers
       THEN tp' = [tp EXCEPT !.opc = "done"]
       ELSE /\ tp.wpc[tp.joined + 1] = "exit"
            /\ tp' = [tp EXCEPT !.joined = @ + 1]
  /\ TPFrame

\* ExecuteLoop: std::unique_lock<Spinlock> lock(m_TasksLock)
TpWorkerLock(w) ==
  /\ tp.wpc[w] = "w_lock" /\ TpAcquire(tp)
  /\ tp' = [tp EXCEPT !.wpc[w] = "w_pred", !.lock = TRUE]
  /\ TPFrame

\* ExecuteLoop: m_Notify.wait(lock, pred): while (!pred()) wait(lock); the wait
\* releases the lock and blocks in one atomic step
TpWorkerWait(w) ==
  /\ tp.wpc[w] = "w_pred"
  /\ tp' = IF tp.tasks # <<>> \/ ~tp.running
             THEN [tp EXCEPT !.wpc[w] = "w_check"]
             ELSE [tp EXCEPT !.wpc[w] = "w_blocked", !.lock = FALSE, !.waiting = @ \cup {w}]
  /\ TPFrame

\* wait(lock): woken up, the worker takes the lock again before it returns
TpWorkerRelock(w) ==
  /\ tp.wpc[w] = "w_relock" /\ TpAcquire(tp)
  /\ tp' = [tp EXCEPT !.wpc[w] = "w_pred", !.lock = TRUE]
  /\ TPFrame

\* condition_variable_any::wait may return without a notification
TpSpuriousWake(w) ==
  /\ w \in tp.waiting /\ tp.spur < MaxSpurious
  /\ tp' = [tp EXCEPT !.waiting = @ \ {w}, !.wpc[w] = "w_relock", !.spur = @ + 1]
  /\ TPFrame

\* ExecuteLoop: if (!m_Running && m_AllTasks.empty()) return;
\*              task = std::move(m_AllTasks.front()); m_AllTasks.pop_front()
TpWorkerCheck(w) ==
  /\ tp.wpc[w] = "w_check"
  /\ tp' = IF ~tp.running /\ tp.tasks = <<>>
             THEN [tp EXCEPT !.wpc[w] = "exit", !.lock = FALSE]
             ELSE [tp EXCEPT !.wpc[w] = "w_unlock", !.wtask[w] = Head(tp.tasks),
                             !.tasks = Tail(@), !.taken = Append(@, Head(tp.tasks))]
  /\ TPFrame

\* ExecuteLoop: lock.unlock()
TpWorkerUnlock(w) ==
  /\ tp.wpc[w] = "w_unlock"
  /\ tp' = [tp EXCEPT !.wpc[w] = "w_run", !.lock = FALSE]
  /\ TPFrame

\* ExecuteLoop: task()
TpWorkerRun(w) ==
  /\ tp.wpc[w] = "w_run"
  /\ tp' = [tp EXCEPT !.wpc[w] = "w_lock", !.wtask[w] = 0, !.runs[tp.wtask[w]] = @ + 1]
  /\ TPFrame

TpOwnerStep ==
  \/ TpAddCall \/ TpAddLock \/ TpAddPush \/ TpAddUnlock \/ TpAddNotify
  \/ TpDtorLock \/ TpDtorSet \/ TpDtorUnlock \/ TpDtorNotifyAll \/ TpDtorJoin

TpWorkerStep(w) ==
  \/ TpWorkerLock(w) \/ TpWorkerWait(w) \/ TpWorkerRelock(w) \/ TpWorkerCheck(w)
  \/ TpWorkerUnlock(w) \/ TpWorkerRun(w)

\* the primitives a specification does not exercise stay as constructed
SpinlockIdle == spin = InitSpinlock
MTQueueIdle == mtq = InitMTQueue
TaskProcessorIdle == tp = InitTaskProcessor

(*************************** construction **********************************)
\* MPMCQueue(): one node, head = tail = {1, initial_node}
InitQueue(v) ==
  /\ variant = v
  /\ mem = [n \in Nodes |-> IF n = 1 THEN FreshNode ELSE FreeNode]
  /\ head = CP(1, 1)
  /\ tail = CP(1, 1)
  /\ th = [t \in Threads |-> IdleThread]
  /\ hist = InitHist

\* the calls each thread will make
Plan(p, q) == [push |-> p, pop |-> q]
NoPlan == Plan(0, 0)

\* two pushers and a popper
ConcPlan == [t \in Threads |-> IF t \in {1, 2} THEN Plan(1, 0)
                               ELSE IF t = 3 THEN Plan(0, 2) ELSE NoPlan]
\* one pusher and two poppers racing for head
RacePlan == [t \in Threads |-> IF t = 1 THEN Plan(2, 0)
                               ELSE IF t = 2 THEN Plan(0, 2)
                               ELSE IF t = 3 THEN Plan(0, 1) ELSE NoPlan]
\* one thread: calls that never overlap
SeqPlan == [t \in Threads |-> IF t = 1 THEN Plan(3, 4) ELSE NoPlan]

PushSteps(t) ==
  \/ PushCall(t) \/ PushLoadTail(t) \/ PushAcquire(t) \/ PushData(t) \/ PushReturn(t)

CountSteps(t) ==
  \/ ReleaseLoad(t) \/ ReleaseCas(t) \/ ReleaseDelete(t)
  \/ RetireLoad(t) \/ RetireCas(t) \/ RetireDelete(t)

PopSteps(t) ==
  \/ PopCall(t) \/ PopAcquire(t) \/ PopLoadTail(t) \/ PopLoadNext(t) \/ PopCas(t)
  \/ PopTake(t) \/ PopReturn(t)

HelpingSteps(t) == PushNextWinner(t) \/ PushNextHelper(t) \/ SetTailNode(t)

PlainSteps(t) == PushLink(t) \/ PushExchange(t)

\* a step of thread t in either variant (the program counter selects the variant's code)
ThreadStep(t) == PushSteps(t) \/ HelpingSteps(t) \/ PlainSteps(t) \/ CountSteps(t) \/ PopSteps(t)
PlainStep(t) == PushSteps(t) \/ PlainSteps(t) \/ CountSteps(t) \/ PopSteps(t)

(* Both variants: threads calling push and pop concurrently, then the destructor *)
Init ==
  /\ \E v \in {"helping", "plain"} : InitQueue(v)
  /\ plan \in {ConcPlan, RacePlan, SeqPlan}
  /\ env = InitEnv
  /\ SpinlockIdle /\ MTQueueIdle /\ TaskProcessorIdle

Next == (\E t \in Threads : ThreadStep(t)) \/ Destroy

Spec == Init /\ [][Next]_vars

(* Plain variant, five threads on one processor with at most MaxPreempt
   preemptions, then the destructor: a subset of the interleavings of five
   freely running threads *)
FivePlan == [t \in Threads |-> IF t = 1 THEN Plan(1, 1)
                               ELSE IF t = 2 THEN Plan(1, 0)
                               ELSE IF t <= 5 THEN Plan(0, 1) ELSE NoPlan]

InitCB ==
  /\ InitQueue("plain")
  /\ plan = FivePlan
  /\ \E t \in Threads : env = [InitEnv EXCEPT !.cur = t]
  /\ SpinlockIdle /\ MTQueueIdle /\ TaskProcessorIdle

NextCB == (\E t \in Threads : PlainStep(t)) \/ (\E u \in Threads : Dispatch(u)) \/ Destroy

SpecCB == InitCB /\ [][NextCB]_vars

(* Both variants under a fair scheduler: every thread that can take a step
   eventually takes one (std::thread on a preemptive scheduler) *)
LivePlan == [t \in Threads |-> IF t \in {1, 2} THEN Plan(1, 0)
                               ELSE IF t = 3 THEN Plan(0, 1) ELSE NoPlan]

Finished(t) == th[t].pc = "idle" /\ plan[t] = NoPlan
AllDone == \A t \in Threads : Finished(t)

InitFair ==
  /\ \E v \in {"helping", "plain"} : InitQueue(v)
  /\ plan = LivePlan
  /\ env = InitEnv
  /\ SpinlockIdle /\ MTQueueIdle /\ TaskProcessorIdle

NextFair == \E t \in Threads : ThreadStep(t)

Fairness == \A t \in {u \in Threads : LivePlan[u] # NoPlan} : WF_vars(ThreadStep(t))

SpecFair == InitFair /\ [][NextFair]_vars /\ Fairness

(* Both variants when the scheduler may stop up to MaxSusp threads for good in
   the middle of a call; the threads it does not stop are scheduled fairly *)
SuspPlan == [t \in Threads |-> IF t = 1 THEN Plan(1, 0)
                               ELSE IF t = 2 THEN Plan(1, 1) ELSE NoPlan]

InitSusp ==
  /\ \E v \in {"helping", "plain"} : InitQueue(v)
  /\ plan = SuspPlan
  /\ env = InitEnv
  /\ SpinlockIdle /\ MTQueueIdle /\ TaskProcessorIdle

NextSusp == \E t \in Threads : ThreadStep(t) \/ Suspend(t)

FairnessSusp == \A t \in {u \in Threads : SuspPlan[u] # NoPlan} : WF_vars(ThreadStep(t))

SpecSusp == InitSusp /\ [][NextSusp]_vars /\ FairnessSusp

(* Both variants when up to MaxFail allocations inside push fail *)
InitOom ==
  /\ \E v \in {"helping", "plain"} : InitQueue(v)
  /\ plan = ConcPlan
  /\ env = InitEnv
  /\ SpinlockIdle /\ MTQueueIdle /\ TaskProcessorIdle

NextOom == \E t \in Threads : ThreadStep(t) \/ PushCallFail(t) \/ PushNextHelperFail(t)

SpecOom == InitOom /\ [][NextOom]_vars

(* Helping variant: the queue is move-constructed into a second object while
   no call is in flight; the threads then call push and pop on either object *)
InitMove ==
  /\ InitQueue("helping")
  /\ plan \in {ConcPlan, SeqPlan}
  /\ env = InitEnv
  /\ SpinlockIdle /\ MTQueueIdle /\ TaskProcessorIdle

HelpingStep(t) == PushSteps(t) \/ HelpingSteps(t) \/ CountSteps(t) \/ PopSteps(t)

NextMove == (\E t \in Threads : HelpingStep(t)) \/ MoveQueue \/ UseOther

SpecMove == InitMove /\ [][NextMove]_vars

(* Spinlock: threads calling lock, tryLock and unlock *)
InitLock ==
  /\ InitQueue("helping")
  /\ plan = [t \in Threads |-> NoPlan]
  /\ env = InitEnv
  /\ SpinlockIdle /\ MTQueueIdle /\ TaskProcessorIdle

NextLock == \E t \in LockThreads : LockCall(t) \/ LockTas(t) \/ TryLock(t) \/ Unlock(t)

SpecLock == InitLock /\ [][NextLock]_vars

(* MTQueue: threads calling push and pop *)
InitMT ==
  /\ InitQueue("helping")
  /\ plan = [t \in Threads |-> NoPlan]
  /\ env = InitEnv
  /\ SpinlockIdle /\ MTQueueIdle /\ TaskProcessorIdle

NextMT == \E t \in MTThreads : MtPushStep(t) \/ MtPopStep(t)

SpecMT == InitMT /\ [][NextMT]_vars

(* MTQueue under a fair scheduler: a thread that can take a step eventually
   takes one; a thread waiting for a std::mutex takes its step when the mutex
   is free *)
FairnessMT == \A t \in MTThreads : WF_vars(MtPushStep(t) \/ MtPopStep(t))

SpecMTFair == InitMT /\ [][NextMT]_vars /\ FairnessMT

(* TaskProcessor: an owner thread that adds tasks and then destroys the
   processor, and the worker threads, all scheduled fairly *)
InitTP ==
  /\ InitQueue("helping")
  /\ plan = [t \in Threads |-> NoPlan]
  /\ env = InitEnv
  /\ SpinlockIdle /\ MTQueueIdle /\ TaskProcessorIdle

NextTP == TpOwnerStep \/ \E w \in Workers : TpWorkerStep(w) \/ TpSpuriousWake(w)

FairnessTP == WF_vars(TpOwnerStep) /\ \A w \in Workers : WF_vars(TpWorkerStep(w))

SpecTP == InitTP /\ [][NextTP]_vars /\ FairnessTP

(***************************** properties **********************************)
Popped(v) == hist.popcnt[v] > 0

\* value v is in a node of the list from node p up to, not including, the tail node
RECURSIVE InList(_, _, _)
InList(v, p, k) ==
  IF p = Null \/ p = tail.ptr \/ k = 0 THEN FALSE
  ELSE IF mem[p].data = v THEN TRUE
  ELSE InList(v, mem[p].next.ptr, k - 1)

\* v has been returned by a pop, is being returned by one, or a later pop can find it
Held(v) ==
  \/ Popped(v)
  \/ v \in hist.taken
  \/ \E t \in Threads : th[t].res = v
  \/ InList(v, head.ptr, MaxNodes)

\* thread t has checked node n out (increase_ref_count succeeded on a counted
\* pointer to n) and has not yet given the reference back
Holds(t, n) ==
  \/ th[t].pc \in {"p_data", "p_next_w", "p_next_h", "p_link", "p_xchg"} /\ th[t].old.ptr = n
  \/ th[t].pc \in {"st_cas", "o_tail", "o_next", "o_cas", "o_take"} /\ th[t].saved = n
  \/ th[t].pc \in {"rel_load", "rel_cas", "fx_load", "fx_cas"} /\ th[t].rn = n

\* node n has been linked into the queue: it is the first node or some next points to it
Linked(n) == n = 1 \/ \E m \in Nodes : mem[m].st # "free" /\ mem[m].next.ptr = n

\* the nodes from node p to node q along next
RECURSIVE Chain(_, _, _)
Chain(p, q, k) ==
  IF p = Null \/ k = 0 THEN {}
  ELSE IF p = q THEN {p}
  ELSE {p} \cup Chain(mem[p].next.ptr, q, k - 1)

\* C1: helping variant, concurrent pushes and pops: no pop returns a value twice
\* or a value that was never pushed, and once a pop that overlapped no other
\* call has reported the queue empty, every value whose push has returned has
\* been returned by exactly one pop.
C1_NoLossNoDup ==
  variant = "helping" =>
    /\ \A v \in Vals : hist.popcnt[v] <= 1
    /\ \A v \in Vals : Popped(v) => v <= hist.nval
    /\ hist.drained => \A v \in hist.ret : hist.popcnt[v] = 1

\* C2: plain variant, concurrent pushes and pops: no pop returns a value twice
\* or a value that was never pushed, and every value whose push has returned
\* has been returned by a pop or is still in the list for a later pop to return.
C2_NoLossNoDup ==
  variant = "plain" =>
    /\ \A v \in Vals : hist.popcnt[v] <= 1
    /\ \A v \in Vals : Popped(v) => v <= hist.nval
    /\ \A v \in hist.ret : Held(v)

\* C3: both variants: while no two calls have overlapped, every pop returns
\* what the reference FIFO queue returns (its oldest value, or no value when
\* it is empty).
C3_SequentialFifo == hist.seq => hist.lastgot = hist.lastexp

\* C3 witness: one thread has pushed 1, 2, 3, popped them in that order and
\* then got "no value" from a fourth pop.
C3_Witness ==
  /\ hist.seq /\ hist.drained
  /\ hist.ref = <<>> /\ hist.lastexp = Null
  /\ \A v \in 1..3 : hist.popcnt[v] = 1

\* C4 (as the claim states it): helping variant: a node is deleted at most
\* once, only by a release_reference or free_external_count step that left
\* internal_count = 0 and external_counters = 0, and no thread touches a
\* field of a node after its deletion.
C4_DeletedByCountOnly ==
  variant = "helping" =>
    /\ ~hist.dfree /\ ~hist.uaf
    /\ \A n \in Nodes : mem[n].st = "dead" =>
         mem[n].by \in {"release", "retire"} /\ mem[n].cnt = NC(0, 0)

\* C4 (amended): helping variant: a node is deleted at most once and never
\* touched afterwards; a node that was linked into the queue is deleted only
\* by a release_reference or free_external_count step that left both counts
\* 0; the only other deletion is a pusher deleting its own node, which was
\* never linked and still has the counts of a fresh node.
C4_DeleteOnce ==
  variant = "helping" =>
    /\ ~hist.dfree /\ ~hist.uaf
    /\ \A n \in Nodes : mem[n].st = "dead" =>
         \/ mem[n].by \in {"release", "retire"} /\ mem[n].cnt = NC(0, 0)
         \/ mem[n].by = "owner" /\ ~Linked(n) /\ mem[n].cnt = NC(0, 2)

\* C4 witness: a node deleted by release_reference, a node deleted by
\* free_external_count and a pusher's own node deleted by its owner.
C4_Witness ==
  /\ variant = "helping"
  /\ \E n \in Nodes : mem[n].st = "dead" /\ mem[n].by = "release"
  /\ \E n \in Nodes : mem[n].st = "dead" /\ mem[n].by = "retire"
  /\ \E n \in Nodes : mem[n].st = "dead" /\ mem[n].by = "owner"

\* C5: plain variant with the declared bit-field widths, five threads: a node
\* is deleted at most once and only when no thread holds a checkout of it,
\* and no thread touches a deleted node.
C5_DeleteOnceUnheld ==
  variant = "plain" =>
    /\ ~hist.dfree /\ ~hist.uaf
    /\ \A n \in Nodes : mem[n].st = "dead" => \A t \in Threads : ~Holds(t, n)

\* thread t is at a dereference of a null node pointer: its call does not return
NullDeref(t) ==
  \/ th[t].pc \in {"p_data", "p_next_w", "p_next_h", "p_link"} /\ th[t].old.ptr = Null
  \/ th[t].pc \in {"o_next", "o_take"} /\ th[t].saved = Null
  \/ th[t].pc \in {"rel_load", "rel_cas", "fx_load", "fx_cas"} /\ th[t].rn = Null

\* C6: both variants: there is no reachable state from which a pending call
\* can never complete: no call arrives at a dereference of a null node pointer.
C6_NoStuckCall == \A t \in Threads : ~NullDeref(t)

\* C6, three threads (two pushers and a popper) under fair scheduling: every
\* call returns.
C6_FairTermination == <>AllDone

\* C7: plain variant: while the pusher that installed its payload is suspended
\* before tail.exchange, a running pusher does not go round its loop without
\* another push having made progress: its payload CAS fails at most once per
\* other push call.
C7_LockFree ==
  (variant = "plain" /\ \E w \in env.susp : th[w].pc \in {"p_link", "p_xchg"}) =>
    \A t \in Threads \ env.susp : th[t].tries = 0 \/ th[t].tries < hist.nval

\* the pusher that won the payload CAS on the tail node is suspended before tail has left that node
WinnerStalled ==
  \E w \in env.susp :
    /\ th[w].pc \in {"p_next_w", "st_cas"} /\ th[w].ret # "p_acq"
    /\ th[w].old.ptr = tail.ptr

PushDone(t) == plan[t].push = 0 /\ (InFlight(t) => th[t].val = Null)

\* C8: helping variant: when the pusher that won the payload CAS is suspended
\* before tail is advanced, every other pusher that keeps running completes
\* its push.
C8_HelpersComplete ==
  (variant = "helping" /\ WinnerStalled) ~> (\A t \in Threads \ env.susp : PushDone(t))

\* C8 witness: the winner is suspended before its CAS on next, and yet tail
\* has left the winner's node and the other push has returned.
C8_Witness ==
  /\ variant = "helping"
  /\ \E w \in env.susp : th[w].pc = "p_next_w" /\ th[w].old.ptr # tail.ptr
  /\ hist.ret # {}

\* C9: both variants: values leave the queue in the order of non-overlapping
\* pushes, non-overlapping pops return values in push order, and a pop
\* returns "no value" only if every value whose push had returned before the
\* pop was called has been taken by the time the pop returns.
C9_Linearizable == hist.linOK /\ hist.rtOK /\ hist.emptyOK

\* C10: plain variant: the destructor, run with no call in flight, destroys
\* each pushed and unpopped payload exactly once and no other payload, and
\* deletes each node from the head node to the tail node exactly once.
C10_Destructor ==
  (variant = "plain" /\ env.gone) =>
    /\ \A v \in Vals : hist.destroyed[v] = IF v \in hist.ret /\ ~Popped(v) THEN 1 ELSE 0
    /\ \A n \in Chain(head.ptr, tail.ptr, MaxNodes) : mem[n].st = "dead" /\ mem[n].by = "dtor"
    /\ ~hist.dfree

\* C11: helping variant: the destructor, run with no call in flight, destroys
\* each pushed and unpopped payload exactly once, and deallocates every node
\* from the head node to the tail sentinel.
C11_HelpingDestructor ==
  (variant = "helping" /\ env.gone) =>
    /\ \A v \in hist.ret : ~Popped(v) => hist.destroyed[v] = 1
    /\ \A v \in Vals : hist.destroyed[v] <= 1
    /\ \A n \in Chain(head.ptr, tail.ptr, MaxNodes) : mem[n].st = "dead"

\* every payload constructed so far has been returned by a pop
AllPopped == \A v \in 1..hist.nval : Popped(v)

\* the live objects of payload v: constructed once, destroyed by each receiver
\* that got it from a pop and by each destructor walk that found it in a node
Live(v) == 1 - hist.popcnt[v] - hist.destroyed[v]

\* C12: both variants: once all calls have completed, every pushed value has
\* been returned by a pop and the queue has been destroyed, every payload has
\* been destroyed exactly once: the count of live payloads is zero.
C12_NoLeak ==
  (env.gone /\ AllIdle /\ AllPopped) => \A v \in 1..hist.nval : Live(v) = 0

\* C12 witness: two payloads were pushed and popped by concurrent calls and
\* the plain queue's destructor has deleted the last node.
C12_Witness ==
  /\ env.gone /\ AllIdle /\ AllPopped /\ ~hist.seq
  /\ hist.nval >= 2
  /\ \E n \in Nodes : mem[n].st = "dead" /\ mem[n].by = "dtor"

\* an internal_count that release_reference has taken below 0, read back from
\* the unsigned bit-field
Signed(x, v) == IF 2 * x >= InternalMod(v) THEN x - InternalMod(v) ELSE x

\* thread t has swapped a shared slot off node n and has not yet retired it
PendingWinner(t, n) ==
  \/ th[t].pc \in {"fx_load", "fx_cas"} /\ th[t].rn = n
  \/ th[t].pc = "o_take" /\ th[t].saved = n

\* the correction external_count - 2 that t's free_external_count will add
Correction(t, n) ==
  IF th[t].pc \in {"fx_load", "fx_cas"} /\ th[t].rn = n THEN th[t].inc - 2
  ELSE IF th[t].pc = "o_take" /\ th[t].saved = n THEN th[t].old.cnt - 2
  ELSE 0

PendingSum(n) ==
  LET f[k \in 0..MaxThreads] == IF k = 0 THEN 0 ELSE f[k - 1] + Correction(k, n)
  IN f[MaxThreads]

\* the checkouts of n still counted in the shared slots that designate n
SlotSum(n) ==
  (IF head.ptr = n THEN head.cnt - 1 ELSE 0) + (IF tail.ptr = n THEN tail.cnt - 1 ELSE 0)

\* the threads that hold a checkout of n and have a release still to make
Releasers(n) == {t \in Threads : Holds(t, n) /\ ~PendingWinner(t, n)}

\* C19: both variants: for every live node, internal_count plus the checkouts
\* still counted in the slots that designate the node plus the pending
\* corrections of the winners equals the number of threads that hold a
\* checkout of the node and have yet to release it.
C19_Reconciled ==
  \A n \in Nodes : mem[n].st = "live" =>
    Signed(mem[n].cnt.ic, variant) + SlotSum(n) + PendingSum(n) = Cardinality(Releasers(n))

\* the reference count of node n reconciles within the range of its bit-field
Balanced(n) ==
  (mem[n].cnt.ic + SlotSum(n) + PendingSum(n) - Cardinality(Releasers(n))) % InternalMod(variant) = 0

\* the list from head reaches the tail node through nodes that are allocated
WellLinked ==
  LET c == Chain(head.ptr, tail.ptr, MaxNodes) IN
    tail.ptr \in c /\ \A n \in c : mem[n].st = "live"

\* payload v is in no node and no pop has got it
NotEnqueued(v) ==
  /\ ~Popped(v) /\ v \notin hist.taken
  /\ \A t \in Threads : th[t].res # v
  /\ \A n \in Nodes : mem[n].st = "live" => mem[n].data # v

\* what the calls that did not fail observe: no value twice, values in push order
AsIfNeverCalled ==
  /\ \A v \in Vals : hist.popcnt[v] <= 1
  /\ hist.linOK /\ hist.rtOK
  /\ hist.seq => hist.lastgot = hist.lastexp

\* the queue as a push ended by an allocation failure must leave it
QueueIntact ==
  /\ \A v \in hist.thrown : NotEnqueued(v)
  /\ WellLinked
  /\ \A n \in Nodes : mem[n].st = "live" => Balanced(n)
  /\ AsIfNeverCalled

\* C13: both variants: after an allocation inside a push has failed, the
\* payload of that push is not enqueued, the list from head to tail is made of
\* allocated, linked nodes, no checkout is left behind by the failed call
\* (every node's count reconciles with the threads still in a call), and the
\* other calls see no value twice and values in push order.
C13_AllocFailureSafe == env.oom > 0 => QueueIntact

\* C14: helping variant: after a move construction made with no call in
\* flight, sequential pops on the destination return the source's values in
\* their order, and a pop on the moved-from source completes and returns
\* "no value".
C14_MoveLeavesSourceEmpty ==
  /\ (env.obj = "dst" /\ hist.seq) => hist.lastgot = hist.lastexp
  /\ env.obj = "src" =>
       \A t \in Threads : th[t].val = Null =>
         ~NullDeref(t) /\ (th[t].pc = "o_ret" => th[t].res = Null)

\* the values in the nodes from node p up to, not including, the tail node
RECURSIVE MtContents(_, _)
MtContents(p, k) ==
  IF p = Null \/ p = mtq.tail \/ k = 0 THEN <<>>
  ELSE <<mtq.node[p].data>> \o MtContents(mtq.node[p].next, k - 1)

\* the first node of the list (head is null while remove_head moves it)
MtFirst ==
  IF \E t \in MTThreads : mtq.pc[t] = "po_adv"
    THEN mtq.node[mtq.loc[CHOOSE t \in MTThreads : mtq.pc[t] = "po_adv"].oh].next
    ELSE mtq.head

\* the value of the push that holds tail_mut and has not yet moved tail
MtWriting ==
  LET w == {t \in MTThreads : mtq.pc[t] \in {"pu_data", "pu_next", "pu_tail"}} IN
    IF w = {} THEN <<>> ELSE <<mtq.loc[CHOOSE t \in w : TRUE].val>>

\* C15: MTQueue: the values remove_head has taken are a prefix of the values
\* in the order their pushes took tail_mut, the rest is in the list (no value
\* is lost), no value is returned twice, and a pop returns an empty pointer
\* exactly when every value pushed so far had been taken when it read tail.
C15_MTQueueFifo ==
  /\ Len(mtq.out) <= Len(mtq.order)
  /\ mtq.out = SubSeq(mtq.order, 1, Len(mtq.out))
  /\ mtq.order = mtq.out \o MtContents(MtFirst, MaxMTVals + 1) \o MtWriting
  /\ \A v \in MTVals : mtq.popcnt[v] <= 1
  /\ \A t \in MTThreads : mtq.pc[t] \in {"po_hunlock", "po_ret"} =>
       /\ MtResult(t) = Null <=> mtq.loc[t].was
       /\ MtResult(t) # Null => MtResult(t) \in {mtq.out[i] : i \in 1..Len(mtq.out)}

\* C15 witness: three values have been pushed and popped, two threads are in
\* pop at once, one about to return a value and one about to return empty.
C15_Witness ==
  /\ mtq.nval = 3 /\ Len(mtq.out) = 3
  /\ \E t, u \in MTThreads :
       /\ mtq.pc[t] = "po_ret" /\ MtResult(t) = 3
       /\ mtq.pc[u] \in {"po_hunlock", "po_ret"} /\ MtResult(u) = Null

\* a release_reference step on node n: only internal_count changes, by -1
ReleasedOn(n) ==
  /\ mem[n].st = "live" /\ mem'[n].st # "free"
  /\ mem'[n].cnt = ReleaseCount(mem[n].cnt, variant)

\* a free_external_count step on node n: external_counters changes, by -1
RetiredOn(n) ==
  /\ mem[n].st = "live" /\ mem'[n].st # "free"
  /\ mem'[n].cnt.ec = (mem[n].cnt.ec + ExternalMod - 1) % ExternalMod

C20_InstalledOnce == ~hist.reinst

\* a notification by the owner is on its way
TpNotifying == tp.opc \in {"a_push", "a_unlock", "a_notify", "d_set", "d_unlock", "d_notify"}

\* C17, in every state: each task is taken by one worker and run at most once,
\* tasks are taken in the order they were added, a worker has left
\* ExecuteLoop only if m_Running is false and the list is empty, no worker
\* stays blocked in wait over a task or a shutdown that nobody is about to
\* notify, and when the destructor has returned every task whose Add had
\* returned has run exactly once.
C17_Safety ==
  /\ \A i \in 1..Len(tp.taken) : tp.taken[i] = i
  /\ \A k \in Tasks : tp.runs[k] <= 1
  /\ \A k \in Tasks : tp.runs[k] = 1 => k <= Len(tp.taken)
  /\ \A k \in Tasks : Cardinality({w \in Workers : tp.wtask[w] = k}) + tp.runs[k] <= 1
  /\ \A w \in Workers : tp.wpc[w] = "exit" => ~tp.running /\ tp.tasks = <<>>
  /\ (tp.waiting # {} /\ (tp.tasks # <<>> \/ ~tp.running)) =>
       \/ TpNotifying
       \/ \E w \in Workers : tp.wpc[w] \notin {"w_blocked", "exit"}
  /\ tp.opc = "done" =>
       /\ \A k \in 1..tp.nadd : tp.runs[k] = 1
       /\ \A w \in Workers : tp.wpc[w] = "exit"

\* C17: TaskProcessor: the safety part holds in every state, and the
\* destructor returns.
C17_TaskProcessor == []C17_Safety /\ <>(tp.opc = "done")

\* C17 witness: the destructor has returned after three tasks were added,
\* taken in order and run, with a spurious wake-up on the way.
C17_Witness ==
  /\ tp.opc = "done" /\ tp.nadd = 3 /\ tp.spur = 1
  /\ tp.taken = <<1, 2, 3>> /\ \A k \in 1..3 : tp.runs[k] = 1

\* C16: Spinlock: at most one thread holds the lock and the flag is set while
\* it is held; a tryLock returns true exactly when no thread held the lock at
\* its test-and-set and then its caller is the holder; a tryLock that returns
\* false leaves the lock with the thread that held it.
C16_MutualExclusion ==
  /\ Cardinality(spin.holders) <= 1
  /\ spin.locked <=> spin.holders # {}
  /\ spin.holders = {t \in LockThreads : spin.pc[t] = "held"}
  /\ spin.try.who # 0 =>
       /\ spin.try.ret <=> spin.try.held = {}
       /\ spin.try.ret => spin.holders = {spin.try.who}
       /\ ~spin.try.ret => spin.holders = spin.try.held /\ spin.try.who \notin spin.holders

\* C16 witness: a tryLock has just returned false while another thread holds
\* the lock and a third one has been spinning in lock().
C16_Witness ==
  /\ spin.try.who # 0 /\ ~spin.try.ret
  /\ \E h \in spin.holders : h # spin.try.who
  /\ \E w \in LockThreads : spin.pc[w] = "l_tas" /\ spin.rep[w] < RepeatCount

\* the nodes from the head node up to, not including, the tail node
BeforeTail == Chain(head.ptr, tail.ptr, MaxNodes) \ {tail.ptr}

\* thread t is a pusher whose payload CAS succeeded on node n and that has not
\* yet finished moving tail past n
Installing(t, n) ==
  /\ th[t].val # Null
  /\ \/ th[t].pc \in {"p_next_w", "p_link", "p_xchg"} /\ th[t].old.ptr = n
     \/ th[t].pc = "st_cas" /\ th[t].ret = "p_ret" /\ th[t].saved = n

\* C21: in every state before the destructor, every node from the head node
\* to the node before the tail node holds a payload, and the tail node holds
\* none, the steps of a push between its install in the tail node and its
\* move of tail apart.
C21_PayloadBeforeTail ==
  ~env.gone => /\ \A n \in BeforeTail : mem[n].data # Null
               /\ mem[tail.ptr].data # Null => \E t \in Threads : Installing(t, tail.ptr)

\* the same with no exception for the push that has installed and not yet
\* moved tail: a push passes through such a state by construction
TailNeverFilled ==
  ~env.gone => /\ \A n \in BeforeTail : mem[n].data # Null
               /\ mem[tail.ptr].data = Null

\* thread t has checked node n out through tail and has neither swapped tail
\* off n nor given the reference back
TailHolder(t, n) ==
  \/ th[t].pc \in {"p_data", "p_next_w", "p_next_h"} /\ th[t].old.ptr = n
  \/ th[t].pc = "st_cas" /\ th[t].saved = n
  \/ th[t].pc \in {"rel_load", "rel_cas"} /\ th[t].rn = n /\ th[t].ret \in {"p_acq", "p_ret"}

\* thread t has swapped tail off node n and is in free_external_count for it
TailWinner(t, n) ==
  th[t].pc \in {"fx_load", "fx_cas"} /\ th[t].rn = n /\ th[t].ret \in {"p_acq", "p_ret"}

\* C22: helping variant, for every node n and every step:
\*  - once n.next is set it never changes, and every thread in set_tail_node
\*    for n passes n.next as the new tail;
\*  - the step that moves tail off n moves it to n.next, a node nobody has
\*    filled or linked yet (so tail never comes back to n and the swap off n
\*    happens once), and exactly one thread takes it, going to
\*    free_external_count on n with the external_count the slot held;
\*  - a thread that checked n out through tail gives it up only by that swap
\*    or by one successful decrement in release_reference, made after tail
\*    has left n.
C22_TailAdvance ==
  [][variant = "helping" =>
      \A n \in Nodes :
        /\ (mem[n].st = "live" /\ mem[n].next # NullCP) => mem'[n].next = mem[n].next
        /\ \A t \in Threads : (th[t].pc = "st_cas" /\ th[t].saved = n) =>
                                 th[t].stnew = mem[n].next /\ th[t].stnew # NullCP
        /\ (tail.ptr = n /\ tail'.ptr # n) =>
             /\ tail' = mem[n].next
             /\ mem[tail'.ptr].st = "live" /\ mem[tail'.ptr].next = NullCP
             /\ mem[tail'.ptr].data = Null
             /\ Cardinality({t \in Threads : /\ TailHolder(t, n) /\ TailWinner(t, n)'
                                             /\ th'[t].inc = tail.cnt}) = 1
        /\ Cardinality({t \in Threads : TailWinner(t, n)}) <= 1
        /\ \A t \in Threads : (TailHolder(t, n) /\ ~TailHolder(t, n)') =>
             \/ tail.ptr = n /\ tail'.ptr # n /\ TailWinner(t, n)'
             \/ /\ th[t].pc = "rel_cas" /\ tail.ptr # n
                /\ mem[n].st = "live"
                /\ mem'[n].cnt = ReleaseCount(mem[n].cnt, variant)]_vars

\* C22 witness: helping variant: one pusher has swapped tail off a node and is
\* in free_external_count for it while another pusher, whose CAS on tail found
\* tail moved, is in release_reference for the same node.
C22_Witness ==
  /\ variant = "helping"
  /\ \E n \in Nodes : \E t, u \in Threads :
       /\ t # u /\ TailWinner(t, n)
       /\ th[u].pc \in {"rel_load", "rel_cas"} /\ TailHolder(u, n)

\* node m comes before node n in link order
Earlier(m, n) == m # n /\ n \in Chain(m, n, MaxNodes)

\* what one step may do to a shared slot: leave it, count one more checkout of
\* the same node, or replace the node by its successor, whose snapshot starts
\* with external_count 1 and which is not a node the slot has left
SlotStep(s, s2) ==
  \/ s2 = s
  \/ s2.ptr = s.ptr /\ s2.cnt = s.cnt + 1
  \/ /\ s2.ptr # s.ptr /\ s2.ptr # Null
     /\ s2 = mem[s.ptr].next /\ s2.cnt = 1
     /\ ~Earlier(s2.ptr, s.ptr)

\* C23: both variants: every step takes head and tail each through SlotStep.
C23_SlotMonotone == [][SlotStep(head, head') /\ SlotStep(tail, tail')]_vars

\* head and tail designate nodes that are allocated and not deleted, and the
\* tail node is reached from the head node along next
SlotsInList ==
  /\ head.ptr # Null /\ tail.ptr # Null
  /\ mem[head.ptr].st = "live" /\ mem[tail.ptr].st = "live"
  /\ tail.ptr \in Chain(head.ptr, tail.ptr, MaxNodes)

\* a step that changes the node of slot s moves it to the node's successor
ToSuccessor(s, s2) == s2.ptr # s.ptr => s2.ptr # Null /\ s2 = mem[s.ptr].next

\* C24: both variants: in every state before the destructor head and tail
\* designate live nodes with the head node at or before the tail node, and
\* every step that changes the node of head or of tail moves the slot to the
\* successor of the node it designated, never to a null link.
C24_SlotsLive ==
  /\ [](~env.gone => SlotsInList)
  /\ [][ToSuccessor(head, head') /\ ToSuccessor(tail, tail')]_vars

\* the nodes from the head node to the tail node, both included
InQueue == Chain(head.ptr, tail.ptr, MaxNodes)

\* C25: both variants: whenever no call is in flight and the queue has not
\* been destroyed, the nodes from the head node to the tail node are live,
\* every other node that was ever allocated (a node head has passed, a node a
\* pusher allocated and did not link) has been deleted, and no node has been
\* deleted twice.
C25_NoNodeLeak ==
  (AllIdle /\ ~env.gone) =>
    /\ tail.ptr \in InQueue
    /\ \A n \in InQueue : mem[n].st = "live"
    /\ \A n \in Nodes \ InQueue : mem[n].st # "live"
    /\ ~hist.dfree

\* where a thread is while it holds head_mut, and while it holds tail_mut
HoldsHeadMut == {"po_tlock", "po_tread", "po_cmp", "po_adv", "po_hunlock"}
HoldsTailMut == {"pu_data", "pu_next", "pu_tail", "pu_unlock", "po_tread"}

\* C26, in every state: each mutex is held exactly by a thread inside the
\* region its lock_guard covers, so a thread that is idle, returning, or
\* waiting for head_mut holds no lock and the only thread that holds both took
\* tail_mut (get_tail) while holding head_mut (remove_head); and whenever a
\* call is in flight some thread can take a step.
C26_LockOrder ==
  /\ \A t \in MTThreads : mtq.head_mut = t <=> mtq.pc[t] \in HoldsHeadMut
  /\ \A t \in MTThreads : mtq.tail_mut = t <=> mtq.pc[t] \in HoldsTailMut
  /\ \A t \in MTThreads : mtq.pc[t] \in {"idle", "po_ret", "po_hlock", "pu_lock"} =>
                            mtq.head_mut # t /\ mtq.tail_mut # t
  /\ (\E t \in MTThreads : mtq.pc[t] # "idle") => ENABLED NextMT

\* C26: MTQueue: the lock discipline holds in every state and, the threads
\* being scheduled fairly, every call returns.
C26_NoDeadlock ==
  /\ []C26_LockOrder
  /\ \A t \in MTThreads : (mtq.pc[t] # "idle") ~> (mtq.pc[t] = "idle")

\* C26 witness: a pop holds head_mut and tail_mut (inside get_tail) while a
\* push waits for tail_mut and another pop waits for head_mut.
C26_Witness ==
  \E t, u, w \in MTThreads :
    /\ mtq.pc[t] = "po_tread" /\ mtq.head_mut = t /\ mtq.tail_mut = t
    /\ mtq.pc[u] = "pu_lock" /\ mtq.pc[w] = "po_hlock"

====
